---- MODULE Spec2Model ----
(***************************************************************************)
(* Learning tracker: the learning_items store (Database), its ordering     *)
(* (getAllLearningItems / reorderItems), the local /api/items routes, the   *)
(* metrics wrapper around the store (instrumentDatabase) and the proxy      *)
(* routes of frontend mode.                                                 *)
(***************************************************************************)
EXTENDS Integers, Sequences, FiniteSets, Bags, TLC

(* ------------------------------ bounds -------------------------------- *)

\* Number of rows ever inserted (AUTOINCREMENT ids 1..MaxId are never reused).
MaxId == 2
\* Number of rows in the tables the reorder scenarios start from.
MaxRows == 3
\* Largest order_index a direct updateItemOrder call passes.
MaxPos == 2
\* Timestamps CURRENT_TIMESTAMP can take (several inserts may share one).
MaxClock == 2

VARIABLES
    items,      \* table learning_items: id -> row
    nextId,     \* the AUTOINCREMENT counter
    clock,      \* CURRENT_TIMESTAMP
    calls,      \* reorderItems calls: their locals and position
    resp,       \* the response of the request answered last
    base,       \* the table as it was when the process started serving
    metrics,    \* the collector handed to instrumentDatabase
    returned,   \* what the route handler got from its last store call
    recorded,   \* the samples the last request step added to the registry
    registry,   \* the counters db_operations_total and http_requests_total
    proxy,      \* the frontend process: its store, its peer calls, its answer
    server      \* a process from its start on: configuration, pipeline, phase

vars == <<items, nextId, clock, calls, resp, base,
          metrics, returned, recorded, registry, proxy, server>>

(* ------------------------------ values -------------------------------- *)

Ids == 1..MaxId
RowIds == 1..MaxRows
\* 'archived' stands for any status string other than the three known ones.
Statuses == {"todo", "progress", "completed", "archived"}
Callers == {1, 2}

\* JSON values a request body field can carry.
Undefined == [t |-> "undefined"]
Str(s) == [t |-> "string", s |-> s]
Num(n) == [t |-> "number", n |-> n]
BodyValues == {Undefined, Str(<<>>), Str(<<" ", " ">>), Str(<<"a">>), Num(5)}

\* A response: the operation, what the Database method returned (the number of
\* rows changed, -1 when it returned no count or was not called), the HTTP status
\* code (0 when no response was sent), the body and, for a body that is the
\* list of rows, the ids in it.
NoResp == [op |-> "none", ret |-> -1, code |-> 0, body |-> "none", rows |-> <<>>]
Json(op, ret, code, ok) ==
    [op |-> op, ret |-> ret, code |-> code,
     body |-> IF ok THEN "success_true" ELSE "success_false", rows |-> <<>>]

\* What the framework sends when a handler throws outside its try block.
Html(op, code) == [op |-> op, ret |-> -1, code |-> code, body |-> "html", rows |-> <<>>]
\* No response is sent at all.
Unanswered(op) == [op |-> op, ret |-> -1, code |-> 0, body |-> "none", rows |-> <<>>]

\* A reorderItems call: the request's arguments, the locals items, filteredItems
\* and i, and where the call stands. A call that has ended holds no locals.
IdleCall == [pc |-> "idle", draggedId |-> 0, targetId |-> 0,
             items |-> <<>>, filteredItems |-> <<>>, i |-> 0]

Ended(pc, draggedId, targetId) ==
    [pc |-> pc, draggedId |-> draggedId, targetId |-> targetId,
     items |-> <<>>, filteredItems |-> <<>>, i |-> 0]

(* ------------------------- JavaScript helpers -------------------------- *)

\* String.prototype.trim on a sequence of characters.
RECURSIVE TrimStart(_)
TrimStart(s) ==
    IF s = <<>> THEN <<>>
    ELSE IF Head(s) = " " THEN TrimStart(Tail(s)) ELSE s

RECURSIVE TrimEnd(_)
TrimEnd(s) ==
    IF s = <<>> THEN <<>>
    ELSE IF s[Len(s)] = " " THEN TrimEnd(SubSeq(s, 1, Len(s) - 1)) ELSE s

trim(s) == TrimEnd(TrimStart(s))

\* !v for a body value.
Falsy(v) ==
    \/ v.t = "undefined"
    \/ v.t = "string" /\ v.s = <<>>
    \/ v.t = "number" /\ v.n = 0

\* v.trim() === '' : "yes" / "no", or "throws" when v has no trim method.
TrimIsEmpty(v) ==
    IF v.t = "string" THEN (IF trim(v.s) = <<>> THEN "yes" ELSE "no") ELSE "throws"

\* The condition of the create route, evaluated left to right with short circuit:
\* !title || !description || title.trim() === '' || description.trim() === ''
ValidationOutcome(title, description) ==
    IF Falsy(title) \/ Falsy(description) THEN "reject"
    ELSE IF TrimIsEmpty(title) = "throws" THEN "throws"
    ELSE IF TrimIsEmpty(title) = "yes" THEN "reject"
    ELSE IF TrimIsEmpty(description) = "throws" THEN "throws"
    ELSE IF TrimIsEmpty(description) = "yes" THEN "reject"
    ELSE "accept"

\* Array.prototype.findIndex(x => x === id), 0-based, -1 when absent.
findIndex(seq, id) ==
    IF \E k \in 1..Len(seq) : seq[k] = id
    THEN (CHOOSE k \in 1..Len(seq) :
             seq[k] = id /\ \A j \in 1..(k - 1) : seq[j] # id) - 1
    ELSE -1

\* Array.prototype.filter(x => x !== id).
filterOut(seq, id) == SelectSeq(seq, LAMBDA x : x # id)

\* splice that puts x behind the element at start instead of before it.
splice_after(seq, start, x) ==
    LET n == Len(seq)
        rel == IF start + 1 < 0
               THEN (IF n + start + 1 < 0 THEN 0 ELSE n + start + 1)
               ELSE (IF start + 1 > n THEN n ELSE start + 1)
    IN  SubSeq(seq, 1, rel) \o <<x>> \o SubSeq(seq, rel + 1, n)

\* Array.prototype.splice(start, 0, x): a negative start counts from the end,
\* and the start is clamped to 0..length.
splice(seq, start, x) ==
    LET n == Len(seq)
        rel == IF start < 0
               THEN (IF n + start < 0 THEN 0 ELSE n + start)
               ELSE (IF start > n THEN n ELSE start)
    IN  SubSeq(seq, 1, rel) \o <<x>> \o SubSeq(seq, rel + 1, n)

(* --------------------------- ORDER BY clause --------------------------- *)

\* CASE WHEN status = "todo" THEN 1 ... ELSE 4 END
statusRank(status) ==
    CASE status = "todo" -> 1
      [] status = "progress" -> 2
      [] status = "completed" -> 3
      [] OTHER -> 4

\* The ORDER BY clause with created_at ASC in place of DESC.
OrderBefore_createdAsc(a, b) ==
    \/ statusRank(a.status) < statusRank(b.status)
    \/ /\ statusRank(a.status) = statusRank(b.status)
       /\ a.order_index < b.order_index
    \/ /\ statusRank(a.status) = statusRank(b.status)
       /\ a.order_index = b.order_index
       /\ a.created_at < b.created_at

\* The ORDER BY clause with order_index DESC in place of ASC.
OrderBefore_positionDesc(a, b) ==
    \/ statusRank(a.status) < statusRank(b.status)
    \/ /\ statusRank(a.status) = statusRank(b.status)
       /\ a.order_index > b.order_index
    \/ /\ statusRank(a.status) = statusRank(b.status)
       /\ a.order_index = b.order_index
       /\ a.created_at > b.created_at

\* Row a sorts strictly before row b: CASE rank, order_index ASC, created_at DESC.
OrderBefore(a, b) ==
    \/ statusRank(a.status) < statusRank(b.status)
    \/ /\ statusRank(a.status) = statusRank(b.status)
       /\ a.order_index < b.order_index
    \/ /\ statusRank(a.status) = statusRank(b.status)
       /\ a.order_index = b.order_index
       /\ a.created_at > b.created_at

\* Insert id into the sorted sequence of ids, behind every row it does not precede.
RECURSIVE InsertSorted(_, _, _)
InsertSorted(table, sorted, id) ==
    IF sorted = <<>> THEN <<id>>
    ELSE IF OrderBefore(table[id], table[Head(sorted)])
         THEN <<id>> \o sorted
         ELSE <<Head(sorted)>> \o InsertSorted(table, Tail(sorted), id)

RECURSIVE SortScan(_, _)
SortScan(table, scan) ==
    IF scan = <<>> THEN <<>>
    ELSE InsertSorted(table, SortScan(table, SubSeq(scan, 1, Len(scan) - 1)),
                      scan[Len(scan)])

\* The orders in which the engine may scan the rows: rows that agree on the whole
\* ORDER BY key come out in an order SQL leaves unspecified.
ScanOrders(table) ==
    LET n == Cardinality(DOMAIN table)
    IN  {s \in [1..n -> DOMAIN table] : \A j, k \in 1..n : j # k => s[j] # s[k]}

\* Database.getAllLearningItems: the ids of the rows in result order, for one scan.
getAllLearningItems(table, scan) == SortScan(table, scan)

(* ------------------------- Database operations ------------------------- *)

\* A row count that is 1 also when no row matched.
changes_one(table, id) == 1

\* Rows changed by a statement with WHERE id = ?.
changes(table, id) == IF id \in DOMAIN table THEN 1 ELSE 0

\* INSERT INTO learning_items (title, description): the other columns take
\* their schema defaults.
addLearningItem(table, id, title, description, now) ==
    [k \in DOMAIN table \cup {id} |->
        IF k = id
        THEN [title |-> title, description |-> description, status |-> "todo",
              resolved |-> FALSE, order_index |-> 0, created_at |-> now]
        ELSE table[k]]

\* DELETE without its WHERE clause.
deleteLearningItem_all(table, id) ==
    IF id \in DOMAIN table THEN [k \in {} |-> 0] ELSE table

\* DELETE FROM learning_items WHERE id = ?
deleteLearningItem(table, id) == [k \in DOMAIN table \ {id} |-> table[k]]

\* resolveItem that sets the flag and leaves the status.
resolveItem_flagOnly(table, id) ==
    [k \in DOMAIN table |->
        IF k = id THEN [table[k] EXCEPT !.resolved = TRUE] ELSE table[k]]

\* UPDATE learning_items SET resolved = TRUE, status = "completed" WHERE id = ?
resolveItem(table, id) ==
    [k \in DOMAIN table |->
        IF k = id THEN [table[k] EXCEPT !.resolved = TRUE, !.status = "completed"]
        ELSE table[k]]

\* unresolveItem that clears the flag and leaves the status.
unresolveItem_flagOnly(table, id) ==
    [k \in DOMAIN table |->
        IF k = id THEN [table[k] EXCEPT !.resolved = FALSE] ELSE table[k]]

\* UPDATE learning_items SET resolved = FALSE, status = "todo" WHERE id = ?
unresolveItem(table, id) ==
    [k \in DOMAIN table |->
        IF k = id THEN [table[k] EXCEPT !.resolved = FALSE, !.status = "todo"]
        ELSE table[k]]

\* updateItemStatus that sets the status and leaves the flag.
updateItemStatus_statusOnly(table, id, status) ==
    [k \in DOMAIN table |->
        IF k = id THEN [table[k] EXCEPT !.status = status] ELSE table[k]]

\* updateItemStatus that always clears the flag.
updateItemStatus_neverResolved(table, id, status) ==
    [k \in DOMAIN table |->
        IF k = id THEN [table[k] EXCEPT !.status = status, !.resolved = FALSE]
        ELSE table[k]]

\* UPDATE learning_items SET status = ?, resolved = ? WHERE id = ?
\* with resolved = (status === 'completed').
updateItemStatus(table, id, status) ==
    [k \in DOMAIN table |->
        IF k = id
        THEN [table[k] EXCEPT !.status = status, !.resolved = (status = "completed")]
        ELSE table[k]]

\* updateItemOrder that writes a 1-based index.
updateItemOrder_plusOne(table, id, orderIndex) ==
    [k \in DOMAIN table |->
        IF k = id THEN [table[k] EXCEPT !.order_index = orderIndex + 1] ELSE table[k]]

\* updateItemOrder that makes room: rows at or behind the new position move on by one.
updateItemOrder_shift(table, id, orderIndex) ==
    [k \in DOMAIN table |->
        IF k = id THEN [table[k] EXCEPT !.order_index = orderIndex]
        ELSE IF id \in DOMAIN table /\ table[k].order_index >= orderIndex
             THEN [table[k] EXCEPT !.order_index = table[k].order_index + 1]
             ELSE table[k]]

\* UPDATE learning_items SET order_index = ? WHERE id = ?
updateItemOrder(table, id, orderIndex) ==
    [k \in DOMAIN table |->
        IF k = id THEN [table[k] EXCEPT !.order_index = orderIndex] ELSE table[k]]

\* reorderItems that looks the target up in the list it read, before the
\* dragged id was taken out.
reorderSequence_unfiltered(list, draggedId, targetId) ==
    splice(filterOut(list, draggedId), findIndex(list, targetId), draggedId)

\* reorderItems, from the rows read to the sequence it renumbers: remove the
\* dragged id, find the target in the remainder, splice the dragged id in there.
reorderSequence(list, draggedId, targetId) ==
    LET filteredItems == filterOut(list, draggedId)
        targetIndex == findIndex(filteredItems, targetId)
    IN  splice(filteredItems, targetIndex, draggedId)

\* items.find(item => item.id === id) found a row.
found(list, id) == \E k \in 1..Len(list) : list[k] = id

\* The check with && in place of ||.
notFound_both(list, draggedId, targetId) ==
    ~found(list, draggedId) /\ ~found(list, targetId)

\* if (!draggedItem || !targetItem) throw new Error('Item not found')
notFound(list, draggedId, targetId) == ~found(list, draggedId) \/ ~found(list, targetId)

\* The renumbering loop run to its end on a table: row seq[i + 1] gets order_index i.
RECURSIVE renumber(_, _, _)
renumber(table, seq, i) ==
    IF i >= Len(seq) THEN table
    ELSE renumber(updateItemOrder(table, seq[i + 1], i), seq, i + 1)

\* reorderItems run from its read to its return with nothing in between.
reorderItems(table, draggedId, targetId, scan) ==
    LET list == getAllLearningItems(table, scan) IN
    IF notFound(list, draggedId, targetId) THEN table
    ELSE renumber(table, reorderSequence(list, draggedId, targetId), 0)

(* ------------------- instrumentDatabase and metrics -------------------- *)

\* How a call of a store method ends for its caller: with a value (a row count
\* or an id, -1 for a value that is neither) or with an error.
Returns(value) == [kind |-> "returns", value |-> value, error |-> "none"]
Throws(error) == [kind |-> "throws", value |-> -1, error |-> error]
NotCalled == [kind |-> "none", value |-> -1, error |-> "none"]

\* operationMap with reorderItems counted as a read.
operationMap_reorderRead ==
    [getAllLearningItems |-> "read", addLearningItem |-> "create",
     deleteLearningItem |-> "delete", resolveItem |-> "update",
     unresolveItem |-> "update", updateItemStatus |-> "update",
     updateItemOrder |-> "update", reorderItems |-> "read"]

\* const operationMap = { ... }
operationMap ==
    [getAllLearningItems |-> "read", addLearningItem |-> "create",
     deleteLearningItem |-> "delete", resolveItem |-> "update",
     unresolveItem |-> "update", updateItemStatus |-> "update",
     updateItemOrder |-> "update", reorderItems |-> "update"]

\* Object.keys(originalMethods)
MethodNames == DOMAIN operationMap

\* The collectors instrumentDatabase can be handed: the MetricsCollector
\* singleton, or an object whose recordDbOperation can throw.
Collectors == {"MetricsCollector", "throwing"}

\* How metrics.recordDbOperation(...) can end.
RecordOutcomes(collector) ==
    IF collector = "MetricsCollector" THEN {"returns"} ELSE {"returns", "throws"}

\* The label set dbOperationsTotal.inc is called with.
recordDbOperation(operation, method, success) ==
    [operation |-> operation, method |-> method,
     success |-> IF success THEN "true" ELSE "false"]

\* The wrapper that turns an error of the wrapped method into a returned value.
instrumentDatabase_swallows(methodName, outcome, rec) ==
    [outcome |-> IF rec = "throws" THEN Throws("recordDbOperation")
                 ELSE Returns(outcome.value),
     samples |-> IF rec = "throws" THEN <<>>
                 ELSE <<recordDbOperation(operationMap[methodName], methodName,
                                          outcome.kind = "returns")>>]

\* The wrapper that records each call twice.
instrumentDatabase_twice(methodName, outcome, rec) ==
    [outcome |-> IF rec = "throws" THEN Throws("recordDbOperation") ELSE outcome,
     samples |-> IF rec = "throws" THEN <<>>
                 ELSE LET sample == recordDbOperation(operationMap[methodName],
                                        methodName, outcome.kind = "returns")
                      IN  <<sample, sample>>]

\* db[methodName] as instrumentDatabase leaves it, applied to the way the
\* wrapped method ended: success starts true and the catch clause sets it
\* false and rethrows; the finally clause records the sample, and when the
\* recording throws, that error takes the place of the value or the error.
instrumentDatabase(methodName, outcome, rec) ==
    [outcome |-> IF rec = "throws" THEN Throws("recordDbOperation") ELSE outcome,
     samples |-> IF rec = "throws" THEN <<>>
                 ELSE <<recordDbOperation(operationMap[methodName], methodName,
                                          outcome.kind = "returns")>>]

\* The path segments made of digits (the ids a request can name).
DigitSegments == {ToString(n) : n \in 0..9}

\* /\d+/ matches the segment.
IsDigits(segment) == segment \in DigitSegments

\* normalizeRoute on a path given by its segments: a segment of digits
\* becomes :id.
normalizeRoute(path) ==
    [k \in 1..Len(path) |-> IF IsDigits(path[k]) THEN ":id" ELSE path[k]]

\* String(statusCode) for the status codes the routes send.
StatusText == [code \in {200, 400, 404, 500, 503} |-> ToString(code)]

\* The label set httpRequestsTotal.inc is called with.
recordHttpRequest(method, route, statusCode) ==
    [method |-> method, route |-> route, status |-> StatusText[statusCode]]

\* The samples one step of a request adds: those of the store calls and, when a response
\* was sent (the finish event), the one of the HTTP middleware.
NoSamples == [db |-> <<>>, http |-> <<>>]
StoreCallsOnly(dbSamples) == [db |-> dbSamples, http |-> <<>>]
Finished(dbSamples, method, route, statusCode) ==
    [db |-> dbSamples,
     http |-> IF statusCode = 0 THEN <<>>
              ELSE <<recordHttpRequest(method, normalizeRoute(route), statusCode)>>]

\* The route patterns (req.route.path).
ItemsRoute == <<"api", "items">>
ItemRoute == <<"api", "items", ":id">>
ResolveRoute == <<"api", "items", ":id", "resolve">>
UnresolveRoute == <<"api", "items", ":id", "unresolve">>
StatusRoute == <<"api", "items", ":id", "status">>
ReorderRoute == <<"api", "items", "reorder">>

\* try { await db.method(...); res.json({ success: true }) }
\* catch (error) { res.status(500).json({ success: false, ... }) }
Answer(op, outcome) ==
    IF outcome.kind = "returns" THEN Json(op, outcome.value, 200, TRUE)
    ELSE Json(op, -1, 500, FALSE)

(* ----------------------- local routes (app.js) ------------------------- *)

\* GET /api/items
GetApiItems ==
    /\ \E scan \in ScanOrders(items), rec \in RecordOutcomes(metrics) :
         LET call == instrumentDatabase("getAllLearningItems", Returns(-1), rec) IN
         /\ returned' = call.outcome
         /\ resp' = IF call.outcome.kind = "returns"
                    THEN [op |-> "list", ret |-> -1, code |-> 200, body |-> "rows",
                          rows |-> getAllLearningItems(items, scan)]
                    ELSE Json("list", -1, 500, FALSE)
         /\ recorded' = Finished(call.samples, "GET", ItemsRoute, resp'.code)
    /\ UNCHANGED <<items, nextId, clock, calls, base, metrics>>

\* POST /api/items. A value without a trim method makes the condition throw
\* outside the handler's try block: the framework's error handler answers 500
\* with its own page, or nothing is answered at all.
PostApiItems(title, description) ==
    LET outcome == ValidationOutcome(title, description) IN
    /\ \/ /\ outcome = "reject"
          /\ resp' = Json("create", -1, 400, FALSE)
          /\ returned' = NotCalled
          /\ recorded' = Finished(<<>>, "POST", ItemsRoute, 400)
          /\ UNCHANGED <<items, nextId>>
       \/ /\ outcome = "throws"
          /\ resp' \in {Html("create", 500), Unanswered("create")}
          /\ returned' = NotCalled
          /\ recorded' = Finished(<<>>, "POST", ItemsRoute, resp'.code)
          /\ UNCHANGED <<items, nextId>>
       \/ /\ outcome = "accept"
          /\ nextId <= MaxId
          /\ items' = addLearningItem(items, nextId, title, description, clock)
          /\ nextId' = nextId + 1
          /\ \E rec \in RecordOutcomes(metrics) :
               LET call == instrumentDatabase("addLearningItem", Returns(nextId), rec) IN
               /\ returned' = call.outcome
               /\ resp' = Answer("create", call.outcome)
               /\ recorded' = Finished(call.samples, "POST", ItemsRoute, resp'.code)
    /\ UNCHANGED <<clock, calls, base, metrics>>

\* DELETE /api/items/:id
DeleteApiItem(id) ==
    /\ items' = deleteLearningItem(items, id)
    /\ \E rec \in RecordOutcomes(metrics) :
         LET call == instrumentDatabase("deleteLearningItem",
                                        Returns(changes(items, id)), rec) IN
         /\ returned' = call.outcome
         /\ resp' = Answer("delete", call.outcome)
         /\ recorded' = Finished(call.samples, "DELETE", ItemRoute, resp'.code)
    /\ UNCHANGED <<nextId, clock, calls, base, metrics>>

\* POST /api/items/:id/resolve
PostResolve(id) ==
    /\ items' = resolveItem(items, id)
    /\ \E rec \in RecordOutcomes(metrics) :
         LET call == instrumentDatabase("resolveItem", Returns(changes(items, id)), rec) IN
         /\ returned' = call.outcome
         /\ resp' = Answer("resolve", call.outcome)
         /\ recorded' = Finished(call.samples, "POST", ResolveRoute, resp'.code)
    /\ UNCHANGED <<nextId, clock, calls, base, metrics>>

\* POST /api/items/:id/unresolve
PostUnresolve(id) ==
    /\ items' = unresolveItem(items, id)
    /\ \E rec \in RecordOutcomes(metrics) :
         LET call == instrumentDatabase("unresolveItem", Returns(changes(items, id)), rec) IN
         /\ returned' = call.outcome
         /\ resp' = Answer("unresolve", call.outcome)
         /\ recorded' = Finished(call.samples, "POST", UnresolveRoute, resp'.code)
    /\ UNCHANGED <<nextId, clock, calls, base, metrics>>

\* POST /api/items/:id/status
PostStatus(id, status) ==
    /\ items' = updateItemStatus(items, id, status)
    /\ \E rec \in RecordOutcomes(metrics) :
         LET call == instrumentDatabase("updateItemStatus",
                                        Returns(changes(items, id)), rec) IN
         /\ returned' = call.outcome
         /\ resp' = Answer("status", call.outcome)
         /\ recorded' = Finished(call.samples, "POST", StatusRoute, resp'.code)
    /\ UNCHANGED <<nextId, clock, calls, base, metrics>>

\* A direct call of db.updateItemOrder (no route of app.js leads to it).
SetPosition(id, orderIndex) ==
    /\ items' = updateItemOrder(items, id, orderIndex)
    /\ \E rec \in RecordOutcomes(metrics) :
         LET call == instrumentDatabase("updateItemOrder",
                                        Returns(changes(items, id)), rec) IN
         /\ returned' = call.outcome
         /\ resp' = [op |-> "setPosition", ret |-> call.outcome.value, code |-> 0,
                     body |-> "none", rows |-> <<>>]
         /\ recorded' = StoreCallsOnly(call.samples)
    /\ UNCHANGED <<nextId, clock, calls, base, metrics>>

\* POST /api/items/reorder up to the end of the first await: the rows are read
\* (this.getAllLearningItems is the wrapped method), and either 'Item not
\* found' is thrown (the route answers 500) or the new sequence is built and
\* the renumbering loop is entered.
ReorderRead(c, draggedId, targetId) ==
    /\ calls[c].pc # "write"
    /\ \E scan \in ScanOrders(items), rec1, rec2 \in RecordOutcomes(metrics) :
         LET list == getAllLearningItems(items, scan)
             read == instrumentDatabase("getAllLearningItems", Returns(-1), rec1)
             thrown == IF read.outcome.kind = "throws" THEN read.outcome
                       ELSE Throws("Item not found")
             outer == instrumentDatabase("reorderItems", thrown, rec2)
         IN
         IF read.outcome.kind = "throws" \/ notFound(list, draggedId, targetId)
         THEN /\ calls' = [calls EXCEPT ![c] = Ended("failed", draggedId, targetId)]
              /\ returned' = outer.outcome
              /\ resp' = Answer("reorder", outer.outcome)
              /\ recorded' = Finished(read.samples \o outer.samples,
                                      "POST", ReorderRoute, resp'.code)
         ELSE /\ calls' = [calls EXCEPT ![c] =
                    [pc |-> "write", draggedId |-> draggedId, targetId |-> targetId,
                     items |-> list,
                     filteredItems |-> reorderSequence(list, draggedId, targetId),
                     i |-> 0]]
              /\ recorded' = StoreCallsOnly(read.samples)
              /\ UNCHANGED <<resp, returned>>
    /\ UNCHANGED <<items, nextId, clock, base, metrics>>

\* One pass of the loop: await this.updateItemOrder(filteredItems[i].id, i),
\* again the wrapped method. After the last one reorderItems returns true and
\* the route answers 200; an error of the pass ends the call, the route
\* answers 500 and the positions written so far stay.
ReorderWrite(c) ==
    LET call == calls[c] IN
    /\ call.pc = "write"
    /\ call.i < Len(call.filteredItems)
    /\ items' = updateItemOrder(items, call.filteredItems[call.i + 1], call.i)
    /\ \E rec1, rec2 \in RecordOutcomes(metrics) :
         LET write == instrumentDatabase("updateItemOrder",
                         Returns(changes(items, call.filteredItems[call.i + 1])), rec1)
             failed == write.outcome.kind = "throws"
             outer == instrumentDatabase("reorderItems",
                         IF failed THEN write.outcome ELSE Returns(-1), rec2)
         IN
         IF failed \/ call.i + 1 = Len(call.filteredItems)
         THEN /\ calls' = [calls EXCEPT ![c] =
                    Ended(IF failed THEN "failed" ELSE "done",
                          call.draggedId, call.targetId)]
              /\ returned' = outer.outcome
              /\ resp' = Answer("reorder", outer.outcome)
              /\ recorded' = Finished(write.samples \o outer.samples,
                                      "POST", ReorderRoute, resp'.code)
         ELSE /\ calls' = [calls EXCEPT ![c].i = call.i + 1]
              /\ recorded' = StoreCallsOnly(write.samples)
              /\ UNCHANGED <<resp, returned>>
    /\ UNCHANGED <<nextId, clock, base, metrics>>

\* CURRENT_TIMESTAMP moves on.
Tick ==
    /\ clock < MaxClock
    /\ clock' = clock + 1
    /\ UNCHANGED <<items, nextId, calls, resp, base, metrics, returned, recorded>>

\* The text of an id as it stands in a request path.
IdSegment == [id \in 0..9 |-> ToString(id)]

\* GET /api/items/<id>: no route matches (req.route is undefined), the
\* framework answers 404 and the middleware labels the sample with the
\* normalized req.path.
Unrouted(id) ==
    /\ resp' = Html("unrouted", 404)
    /\ returned' = NotCalled
    /\ recorded' = Finished(<<>>, "GET", <<"api", "items", IdSegment[id]>>, 404)
    /\ UNCHANGED <<items, nextId, clock, calls, base, metrics>>

(* --------------------------- specifications ---------------------------- *)

EmptyTable == [k \in {} |-> 0]

\* The counters of a collector that has recorded nothing yet.
EmptyRegistry == [db |-> EmptyBag, http |-> EmptyBag]

\* let db = null; if (mode === 'api' || mode === 'all-in-one') db = new Database(...)
createStore(mode) == IF mode \in {"api", "all-in-one"} THEN "Database" ELSE "null"

\* What a caller of a process sees of a response: status code, body, the rows
\* of a list and the text of the error field.
NoAnswer == [code |-> 0, body |-> "none", rows |-> <<>>, error |-> "none"]

\* The UI page request of a frontend process: how far it got, what its two
\* calls gave, and the parameters the view was rendered with.
NoPage ==
    [phase |-> "none", listCall |-> "none", healthCall |-> "none",
     items |-> <<>>, error |-> "null", backendHostname |-> "null"]

\* A process started in frontend mode: startServer initializes db only when
\* there is one; no request has been proxied yet.
StartedFrontend ==
    [db |-> createStore("frontend"),
     initialized |-> createStore("frontend") # "null",
     calls |-> <<>>, resp |-> NoAnswer, page |-> NoPage]

(* ------------------------- modes and startup --------------------------- *)

\* validModes
validModes == {"all-in-one", "frontend", "api"}

\* The environment a process is started in: APP_MODE, API_BASE_URL,
\* METRICS_PORT ("unset" when not set) and the files under app/public.
Environments ==
    [APP_MODE : validModes \cup {"unset", "worker"},
     API_BASE_URL : {"unset", "http://api:3000"},
     METRICS_PORT : {"unset", "9090"},
     public : {{}, {<<"style.css">>}}]

\* config.apiBaseUrl when API_BASE_URL is not set.
ApiBaseUrl == "http://localhost:3000"

\* const config = { mode: process.env.APP_MODE || 'all-in-one', ... }
config(env) ==
    [mode |-> IF env.APP_MODE = "unset" THEN "all-in-one" ELSE env.APP_MODE,
     apiBaseUrl |-> IF env.API_BASE_URL = "unset" THEN ApiBaseUrl ELSE env.API_BASE_URL,
     metricsPort |-> IF env.METRICS_PORT = "unset" THEN "null" ELSE env.METRICS_PORT]

\* A handler of the request pipeline: app.use(...) or app.<method>(path, ...).
Use(kind) == [kind |-> kind, method |-> "any", path |-> <<>>]
Route(kind, method, path) == [kind |-> kind, method |-> method, path |-> path]

HealthRoute == <<"health">>
ApiHealthRoute == <<"api", "health">>
MetricsRoute == <<"metrics">>
PageRoute == <<>>

\* The seven item routes under /api/items, in the order both groups register
\* them up to the place of :id/status.
ItemRoutes(kind) ==
    <<Route(kind, "GET", ItemsRoute), Route(kind, "POST", ItemsRoute),
      Route(kind, "DELETE", ItemRoute), Route(kind, "POST", StatusRoute),
      Route(kind, "POST", ResolveRoute), Route(kind, "POST", UnresolveRoute),
      Route(kind, "POST", ReorderRoute)>>

\* The form routes of all-in-one mode.
FormRoutes ==
    <<Route("form", "POST", <<"add">>), Route("form", "DELETE", <<"delete", ":id">>),
      Route("form", "POST", <<"resolve", ":id">>),
      Route("form", "POST", <<"unresolve", ":id">>),
      Route("form", "POST", <<"reorder">>), Route("form", "POST", <<"status", ":id">>)>>

\* The pipeline with the UI page route registered in every mode.
pipeline_pageEverywhere(cfg) ==
    <<Use("urlencoded"), Use("json"), Use("metricsMiddleware")>>
    \o (IF cfg.mode = "api" THEN <<Use("cors")>> ELSE <<>>)
    \o <<Use("static")>>
    \o <<Route("page", "GET", PageRoute)>>
    \o (IF cfg.mode = "frontend"
        THEN <<Route("proxyHealth", "GET", ApiHealthRoute)>> \o ItemRoutes("proxy")
        ELSE <<>>)
    \o (IF cfg.mode \in {"api", "all-in-one"} THEN ItemRoutes("local") ELSE <<>>)
    \o (IF cfg.mode = "all-in-one" THEN FormRoutes ELSE <<>>)
    \o <<Route("health", "GET", HealthRoute), Route("health", "GET", ApiHealthRoute)>>
    \o (IF cfg.metricsPort = "null" THEN <<Route("metrics", "GET", MetricsRoute)>>
        ELSE <<>>)

\* The handlers app.js registers on app, in order, for a configuration.
pipeline(cfg) ==
    <<Use("urlencoded"), Use("json"), Use("metricsMiddleware")>>
    \o (IF cfg.mode = "api" THEN <<Use("cors")>> ELSE <<>>)
    \o <<Use("static")>>
    \o (IF cfg.mode \in {"frontend", "all-in-one"}
        THEN <<Route("page", "GET", PageRoute)>> ELSE <<>>)
    \o (IF cfg.mode = "frontend"
        THEN <<Route("proxyHealth", "GET", ApiHealthRoute)>> \o ItemRoutes("proxy")
        ELSE <<>>)
    \o (IF cfg.mode \in {"api", "all-in-one"} THEN ItemRoutes("local") ELSE <<>>)
    \o (IF cfg.mode = "all-in-one" THEN FormRoutes ELSE <<>>)
    \o <<Route("health", "GET", HealthRoute), Route("health", "GET", ApiHealthRoute)>>
    \o (IF cfg.metricsPort = "null" THEN <<Route("metrics", "GET", MetricsRoute)>>
        ELSE <<>>)

\* A route path pattern matches a request path: same length, and each segment
\* equal or a parameter.
PathMatches(pattern, path) ==
    /\ Len(pattern) = Len(path)
    /\ \A k \in 1..Len(path) : pattern[k] = path[k] \/ pattern[k] = ":id"

\* Whether a handler ends the request, or passes it on with next().
Takes(handler, method, path, public) ==
    CASE handler.kind \in {"urlencoded", "json", "metricsMiddleware"} -> FALSE
      [] handler.kind = "cors" -> method = "OPTIONS"
      [] handler.kind = "static" -> method = "GET" /\ path \in public
      [] OTHER -> handler.method = method /\ PathMatches(handler.path, path)

\* The kind of the first handler of the pipeline that takes the request,
\* "none" when the request falls through to the framework's 404.
Dispatch(handlers, method, path, public) ==
    LET taking == {k \in 1..Len(handlers) : Takes(handlers[k], method, path, public)} IN
    IF taking = {} THEN "none"
    ELSE handlers[CHOOSE k \in taking : \A l \in taking : k <= l].kind

\* The status the dispatch itself decides: 404 with no handler, 200 from the
\* handlers that always answer 200; 0 where the route's own code decides.
DispatchStatus(kind) ==
    CASE kind = "none" -> 404
      [] kind \in {"cors", "static", "health", "page"} -> 200
      [] OTHER -> 0

\* A process before app.js has run.
Process(env) ==
    [env |-> env, config |-> config(env), phase |-> "load", exitCode |-> -1,
     db |-> "null", initialized |-> FALSE, listening |-> FALSE,
     method |-> "none", path |-> <<>>, taken |-> "none", code |-> 0]

\* The top level of app.js: an invalid mode exits with 1 before anything is
\* set up; otherwise the store object is created and the routes registered.
load(process) ==
    IF process.config.mode \notin validModes
    THEN [process EXCEPT !.phase = "exited", !.exitCode = 1]
    ELSE [process EXCEPT !.phase = "starting",
                         !.db = createStore(process.config.mode)]

\* The handlers registered on app: none before the top level has run or when
\* it exited on the mode, afterwards those of the configuration for good.
handlers(process) ==
    IF process.config.mode \notin validModes \/ process.phase = "load" THEN <<>>
    ELSE pipeline(process.config)

\* startServer that logs the failure of initialize and goes on to listen.
startServer_listensAnyway(process, outcome) ==
    IF process.db # "null" /\ outcome = "throws"
    THEN [process EXCEPT !.phase = "listening", !.listening = TRUE]
    ELSE [process EXCEPT !.phase = "listening", !.listening = TRUE,
                         !.initialized = process.db # "null"]

\* startServer from the outcome of await db.initialize() on: app.listen after
\* it returned, process.exit(1) in the catch block after it threw.
startServer(process, outcome) ==
    IF process.db # "null" /\ outcome = "throws"
    THEN [process EXCEPT !.phase = "exited", !.exitCode = 1]
    ELSE [process EXCEPT !.phase = "listening", !.listening = TRUE,
                         !.initialized = process.db # "null"]

\* A process in all-in-one mode that is serving: the one whose store the
\* other specifications follow.
Serving ==
    startServer(load(Process([APP_MODE |-> "all-in-one", API_BASE_URL |-> "unset",
                              METRICS_PORT |-> "unset", public |-> {}])), "returns")

(* --------------------------- local modes ------------------------------- *)

\* The store-side and frontend-side variables a process in a local mode starts with.
LocalStart ==
    /\ metrics = "MetricsCollector"
    /\ returned = NotCalled
    /\ recorded = NoSamples
    /\ registry = EmptyRegistry
    /\ proxy = StartedFrontend
    /\ server = Serving

\* Steps of a process in a local mode whose counters are not followed; the
\* frontend process is not involved.
Untracked == UNCHANGED <<registry, proxy, server>>

Init ==
    /\ items = EmptyTable
    /\ nextId = 1
    /\ clock = 1
    /\ calls = [c \in Callers |-> IdleCall]
    /\ resp = NoResp
    /\ base = EmptyTable
    /\ LocalStart

Next ==
    \/ \E title, description \in BodyValues :
          PostApiItems(title, description) /\ Untracked
    \/ \E id \in Ids : DeleteApiItem(id) /\ Untracked
    \/ \E id \in Ids : PostResolve(id) /\ Untracked
    \/ \E id \in Ids : PostUnresolve(id) /\ Untracked
    \/ \E id \in Ids, status \in Statuses : PostStatus(id, status) /\ Untracked
    \/ \E id \in Ids, orderIndex \in 0..MaxPos :
          SetPosition(id, orderIndex) /\ Untracked
    \/ \E draggedId, targetId \in Ids :
          ReorderRead(1, draggedId, targetId) /\ Untracked
    \/ ReorderWrite(1) /\ Untracked
    \/ Tick /\ Untracked

Spec == Init /\ [][Next]_vars

(* ----------------------- reorder scenarios ----------------------------- *)

\* Rows as the operations above leave them (resolved exactly when completed),
\* all inserted at the same timestamp.
ScenarioRows ==
    {r \in [title : {Str(<<"a">>)}, description : {Str(<<"a">>)},
            status : Statuses, resolved : BOOLEAN,
            order_index : 0..(MaxRows - 1), created_at : {MaxClock}] :
        r.resolved = (r.status = "completed")}

\* Tables of 1..MaxRows such rows whose positions are all 0 (fresh from
\* create), ascending in id order or descending in id order (as reorders
\* leave them).
ScenarioTables ==
    UNION {{tb \in [1..n -> ScenarioRows] :
               \/ \A k \in 1..n : tb[k].order_index = 0
               \/ \A k \in 1..n : tb[k].order_index = k - 1
               \/ \A k \in 1..n : tb[k].order_index = n - k} :
           n \in 1..MaxRows}

InitReorder ==
    /\ items \in ScenarioTables
    /\ base = items
    /\ nextId = Cardinality(DOMAIN items) + 1
    /\ clock = MaxClock
    /\ calls = [c \in Callers |-> IdleCall]
    /\ resp = NoResp
    /\ LocalStart

\* One reorder request, run to its end with nothing else going on.
NextReorder ==
    \/ \E draggedId, targetId \in RowIds :
          calls[1].pc = "idle" /\ ReorderRead(1, draggedId, targetId) /\ Untracked
    \/ ReorderWrite(1) /\ Untracked

SpecReorder == InitReorder /\ [][NextReorder]_vars

\* Full tables of todo rows at distinct positions.
ConcTables ==
    {tb \in ScenarioTables :
        /\ DOMAIN tb = RowIds
        /\ \A k \in RowIds : tb[k].status = "todo"
        /\ \A j, k \in RowIds : j # k => tb[j].order_index # tb[k].order_index}

InitConc ==
    /\ items \in ConcTables
    /\ base = items
    /\ nextId = MaxRows + 1
    /\ clock = MaxClock
    /\ calls = [c \in Callers |-> IdleCall]
    /\ resp = NoResp
    /\ LocalStart

\* Two reorder requests, one per caller, their reads and writes interleaving.
NextConc ==
    \/ \E c \in Callers, draggedId, targetId \in RowIds :
          calls[c].pc = "idle" /\ ReorderRead(c, draggedId, targetId) /\ Untracked
    \/ \E c \in Callers : ReorderWrite(c) /\ Untracked

SpecConc == InitConc /\ [][NextConc]_vars

(* ------------------------ requests and counters ------------------------ *)

\* Counter.inc(labels) for each of the samples in turn.
RECURSIVE inc(_, _)
inc(counter, samples) ==
    IF samples = <<>> THEN counter
    ELSE inc(counter (+) SetToBag({Head(samples)}), Tail(samples))

\* Steps whose samples are added to the counters.
Tracked ==
    /\ registry' = [db |-> inc(registry.db, recorded'.db),
                    http |-> inc(registry.http, recorded'.http)]
    /\ UNCHANGED <<proxy, server>>

\* The value of a counter summed over its label sets.
Total(counter) == BagCardinality(counter)

\* Tables with room for one more row.
GatewayTables == {tb \in ScenarioTables : Cardinality(DOMAIN tb) < MaxRows}

\* The counters of a fresh process, and those of one that has answered a
\* create request before.
StartRegistries ==
    {EmptyRegistry,
     [db |-> SetToBag({recordDbOperation("create", "addLearningItem", TRUE)}),
      http |-> SetToBag({recordHttpRequest("POST", ItemsRoute, 200)})]}

InitGateway ==
    /\ items \in GatewayTables \cup {EmptyTable}
    /\ base = items
    /\ nextId = Cardinality(DOMAIN items) + 1
    /\ clock = MaxClock
    /\ calls = [c \in Callers |-> IdleCall]
    /\ resp = NoResp
    /\ metrics = "MetricsCollector"
    /\ returned = NotCalled
    /\ recorded = NoSamples
    /\ registry \in StartRegistries
    /\ proxy = StartedFrontend
    /\ server = Serving

\* The one request followed is taken up when none has been before.
Accepting == calls[1].pc = "idle" /\ resp = NoResp

\* One request, or one direct store call, handled by a process in a local
\* mode, the counters followed.
NextGateway ==
    \/ Accepting /\ GetApiItems /\ Tracked
    \/ \E title, description \in BodyValues :
          Accepting /\ PostApiItems(title, description) /\ Tracked
    \/ \E id \in RowIds : Accepting /\ DeleteApiItem(id) /\ Tracked
    \/ \E id \in RowIds : Accepting /\ PostResolve(id) /\ Tracked
    \/ \E id \in RowIds : Accepting /\ PostUnresolve(id) /\ Tracked
    \/ \E id \in RowIds, status \in Statuses :
          Accepting /\ PostStatus(id, status) /\ Tracked
    \/ \E id \in RowIds, orderIndex \in 0..MaxPos :
          Accepting /\ SetPosition(id, orderIndex) /\ Tracked
    \/ \E draggedId, targetId \in RowIds :
          Accepting /\ ReorderRead(1, draggedId, targetId) /\ Tracked
    \/ ReorderWrite(1) /\ Tracked
    \/ \E id \in RowIds : Accepting /\ Unrouted(id) /\ Tracked

SpecGateway == InitGateway /\ [][NextGateway]_vars

\* The same process with a collector whose recordDbOperation can throw.
InitThrowing ==
    /\ items \in GatewayTables \cup {EmptyTable}
    /\ base = items
    /\ nextId = Cardinality(DOMAIN items) + 1
    /\ clock = MaxClock
    /\ calls = [c \in Callers |-> IdleCall]
    /\ resp = NoResp
    /\ metrics = "throwing"
    /\ returned = NotCalled
    /\ recorded = NoSamples
    /\ registry \in StartRegistries
    /\ proxy = StartedFrontend
    /\ server = Serving

SpecThrowing == InitThrowing /\ [][NextGateway]_vars

(* ------------------- frontend mode: the proxy routes ------------------- *)

\* The error field of the body a local route sends with a failure.
ErrorText(op, code) ==
    CASE op = "list" -> "Failed to load learning items"
      [] op = "create" /\ code = 400 -> "Title and description are required"
      [] op = "create" -> "Failed to add learning item"
      [] op = "delete" -> "Failed to delete item"
      [] op = "resolve" -> "Failed to resolve item"
      [] op = "unresolve" -> "Failed to unresolve item"
      [] op = "status" -> "Failed to update status"
      [] op = "reorder" -> "Failed to reorder items"
      [] OTHER -> "none"

\* What the caller of a process in a local mode sees of its response.
Visible(response) ==
    [code |-> response.code, body |-> response.body, rows |-> response.rows,
     error |-> IF response.body = "success_false"
               THEN ErrorText(response.op, response.code) ELSE "none"]

\* The message of the error apiClient rejects with: for a response outside
\* 2xx, for no response within the timeout, for a connection that failed.
BadStatusMessage == "Request failed with status code"
TimeoutMessage == "timeout of 5000ms exceeded"
ConnectMessage == "connect ECONNREFUSED"

\* The catch block answering with the status line only.
Rejected_statusOnly(status, message) ==
    [code |-> IF status # 0 THEN status ELSE 500, body |-> "none",
     rows |-> <<>>, error |-> "none"]

\* catch (error): res.status(error.response?.status || 500)
\*                   .json({ success: false, error: error.message })
Rejected(status, message) ==
    [code |-> IF status # 0 THEN status ELSE 500, body |-> "success_false",
     rows |-> <<>>, error |-> message]

\* The proxy route with res.status(500) for every rejected call.
Forward_lostStatus(response) ==
    IF response.code \in 200..299
    THEN [code |-> 200, body |-> response.body, rows |-> response.rows,
          error |-> Visible(response).error]
    ELSE Rejected(0, BadStatusMessage)

\* The proxy route's answer to what the peer answered: a 2xx response resolves
\* and its data is sent on with res.json (status 200); any other rejects.
Forward(response) ==
    IF response.code \in 200..299
    THEN [code |-> 200, body |-> response.body, rows |-> response.rows,
          error |-> Visible(response).error]
    ELSE Rejected(response.code, BadStatusMessage)

\* apiClient.get / post / delete issued twice.
issue_retried(issued, method, url) == issued \o <<[method |-> method, url |-> url],
                                                  [method |-> method, url |-> url]>>

\* apiClient.get / post / delete: one more call to the peer at baseURL.
issue(issued, method, url) == Append(issued, [method |-> method, url |-> url])

\* The variables of the peer, a process in a local mode.
peerVars == <<items, nextId, clock, calls, resp, base, metrics, returned, recorded>>

\* The frontend takes up the one request followed.
Idle == proxy.calls = <<>> /\ proxy.resp = NoAnswer

\* The call reaches the peer, which handles the request (the conjunct before
\* this one); the route answers once the peer has.
Delivered(method, url) ==
    /\ proxy' = [proxy EXCEPT
                    !.calls = issue(@, method, url),
                    !.resp = IF resp'.code = 0 THEN NoAnswer ELSE Forward(resp')]
    /\ UNCHANGED <<registry, server>>

\* The call does not reach the peer.
Undelivered(method, url) ==
    /\ proxy' = [proxy EXCEPT !.calls = issue(@, method, url),
                              !.resp = Rejected(0, ConnectMessage)]
    /\ UNCHANGED peerVars
    /\ UNCHANGED <<registry, server>>

\* app.get('/api/items') of frontend mode, and the six other proxy routes.
ProxyGetItems ==
    /\ Idle
    /\ \/ GetApiItems /\ Delivered("get", ItemsRoute)
       \/ Undelivered("get", ItemsRoute)

ProxyPostItems(title, description) ==
    /\ Idle
    /\ \/ PostApiItems(title, description) /\ Delivered("post", ItemsRoute)
       \/ Undelivered("post", ItemsRoute)

ProxyDeleteItem(id) ==
    LET url == <<"api", "items", IdSegment[id]>> IN
    /\ Idle
    /\ \/ DeleteApiItem(id) /\ Delivered("delete", url)
       \/ Undelivered("delete", url)

ProxyStatus(id, status) ==
    LET url == <<"api", "items", IdSegment[id], "status">> IN
    /\ Idle
    /\ \/ PostStatus(id, status) /\ Delivered("post", url)
       \/ Undelivered("post", url)

ProxyResolve(id) ==
    LET url == <<"api", "items", IdSegment[id], "resolve">> IN
    /\ Idle
    /\ \/ PostResolve(id) /\ Delivered("post", url)
       \/ Undelivered("post", url)

ProxyUnresolve(id) ==
    LET url == <<"api", "items", IdSegment[id], "unresolve">> IN
    /\ Idle
    /\ \/ PostUnresolve(id) /\ Delivered("post", url)
       \/ Undelivered("post", url)

ProxyReorder(draggedId, targetId) ==
    /\ Idle
    /\ \/ ReorderRead(1, draggedId, targetId) /\ Delivered("post", ReorderRoute)
       \/ Undelivered("post", ReorderRoute)

\* The peer goes on with a reorder; its answer, if the route still waits for
\* one, is sent on.
PeerContinues ==
    /\ ReorderWrite(1)
    /\ proxy' = [proxy EXCEPT
                    !.resp = IF proxy.resp = NoAnswer /\ resp'.code # 0
                             THEN Forward(resp') ELSE @]
    /\ UNCHANGED <<registry, server>>

\* timeout: 5000 passes with no response from the peer.
ProxyTimeout ==
    /\ proxy.calls # <<>>
    /\ proxy.resp = NoAnswer
    /\ proxy' = [proxy EXCEPT !.resp = Rejected(0, TimeoutMessage)]
    /\ UNCHANGED peerVars
    /\ UNCHANGED <<registry, server>>

InitProxy ==
    /\ items \in GatewayTables \cup {EmptyTable}
    /\ base = items
    /\ nextId = Cardinality(DOMAIN items) + 1
    /\ clock = MaxClock
    /\ calls = [c \in Callers |-> IdleCall]
    /\ resp = NoResp
    /\ LocalStart

\* One item request to a process in frontend mode and its peer's handling of it.
NextProxy ==
    \/ ProxyGetItems
    \/ \E title, description \in BodyValues : ProxyPostItems(title, description)
    \/ \E id \in RowIds : ProxyDeleteItem(id)
    \/ \E id \in RowIds, status \in Statuses : ProxyStatus(id, status)
    \/ \E id \in RowIds : ProxyResolve(id)
    \/ \E id \in RowIds : ProxyUnresolve(id)
    \/ \E draggedId, targetId \in RowIds : ProxyReorder(draggedId, targetId)
    \/ PeerContinues
    \/ ProxyTimeout

SpecProxy == InitProxy /\ [][NextProxy]_vars

(* -------------------- frontend mode: the UI page ------------------------ *)

\* os.hostname() of the peer as its /health reports it.
PeerHostname == "api-host"

\* What an apiClient call gave the page route: data, or a rejection.
Resolved(data) == [ok |-> TRUE, data |-> data]
RejectedCall == [ok |-> FALSE, data |-> <<>>]
NotMade == [ok |-> FALSE, data |-> <<>>]

\* res.render('index', { items, error, backendHostname, ... }).
render(listCall, healthCall, pageItems, error, backendHostname) ==
    [phase |-> "rendered", listCall |-> listCall, healthCall |-> healthCall,
     items |-> pageItems, error |-> error, backendHostname |-> backendHostname]

\* The page route answering a failed list call as the proxy API routes do.
uiPage_failsOnList(list, health) ==
    IF list.ok
    THEN render("ok", IF health.ok THEN "ok" ELSE "failed", list.data, "null",
                IF health.ok THEN health.data[1] ELSE ApiBaseUrl)
    ELSE [NoPage EXCEPT !.phase = "error", !.listCall = "failed"]

\* app.get('/') in frontend mode, from the outcomes of its calls: the health
\* call is made only after the list call resolved.
uiPage(list, health) ==
    IF list.ok
    THEN render("ok", IF health.ok THEN "ok" ELSE "failed", list.data, "null",
                IF health.ok THEN health.data[1] ELSE ApiBaseUrl)
    ELSE render("failed", "none", <<>>, "null", ApiBaseUrl)

\* What the view (not among the sources) shows of a failure, after the
\* specification: the page names the backend it got its data from, and shows
\* an error text when it is given one; a page that names the configured
\* address in place of the peer's hostname, or carries an error text, shows
\* the degraded state.
Indicator(page) == page.error # "null" \/ page.backendHostname # PeerHostname

\* The response that carries the page.
PageAnswer(page) ==
    IF page.phase = "rendered"
    THEN [code |-> 200, body |-> "html", rows |-> <<>>, error |-> "none"]
    ELSE [code |-> 500, body |-> "success_false", rows |-> <<>>, error |-> "none"]

\* app.get('/health') of the peer.
GetHealth ==
    /\ resp' = [op |-> "health", ret |-> -1, code |-> 200, body |-> "healthData",
                rows |-> <<>>]
    /\ returned' = NotCalled
    /\ recorded' = Finished(<<>>, "GET", HealthRoute, 200)
    /\ UNCHANGED <<items, nextId, clock, calls, base, metrics>>

\* The page route up to the answer of its first call, apiClient.get('/api/items'):
\* the peer answers, or handles the request too late, or is not reached.
PageList ==
    /\ Idle
    /\ proxy.page = NoPage
    /\ \/ /\ GetApiItems
          /\ \/ /\ resp'.code \in 200..299
                /\ proxy' = [proxy EXCEPT
                      !.calls = issue(@, "get", ItemsRoute),
                      !.page = [NoPage EXCEPT !.phase = "health", !.listCall = "ok",
                                              !.items = resp'.rows]]
             \/ LET page == uiPage(RejectedCall, NotMade) IN
                proxy' = [proxy EXCEPT !.calls = issue(@, "get", ItemsRoute),
                                       !.page = page, !.resp = PageAnswer(page)]
       \/ /\ UNCHANGED peerVars
          /\ LET page == uiPage(RejectedCall, NotMade) IN
             proxy' = [proxy EXCEPT !.calls = issue(@, "get", ItemsRoute),
                                    !.page = page, !.resp = PageAnswer(page)]
    /\ UNCHANGED <<registry, server>>

\* The rest of the page route: apiClient.get('/health') and res.render.
PageHealth ==
    /\ proxy.page.phase = "health"
    /\ \/ /\ GetHealth
          /\ \E health \in {Resolved(<<PeerHostname>>), RejectedCall} :
               LET page == uiPage(Resolved(proxy.page.items), health) IN
               proxy' = [proxy EXCEPT !.calls = issue(@, "get", HealthRoute),
                                      !.page = page, !.resp = PageAnswer(page)]
       \/ /\ UNCHANGED peerVars
          /\ LET page == uiPage(Resolved(proxy.page.items), RejectedCall) IN
             proxy' = [proxy EXCEPT !.calls = issue(@, "get", HealthRoute),
                                    !.page = page, !.resp = PageAnswer(page)]
    /\ UNCHANGED <<registry, server>>

\* One request for the UI page of a frontend process.
NextPage ==
    \/ PageList
    \/ PageHealth

SpecPage == InitProxy /\ [][NextPage]_vars

(* ----------------------- a process from its start ---------------------- *)

\* Everything but the process followed from its start.
otherVars == <<items, nextId, clock, calls, resp, base,
               metrics, returned, recorded, registry, proxy>>

\* The requests tried on a listening process.
Methods == {"GET", "POST", "DELETE", "OPTIONS"}
Paths ==
    {PageRoute, HealthRoute, ApiHealthRoute, MetricsRoute, ItemsRoute,
     <<"api", "items", "1">>, <<"api", "items", "1", "status">>, ReorderRoute,
     <<"style.css">>, <<"add">>}

\* node app.js up to the call of startServer().
Load ==
    /\ server.phase = "load"
    /\ server' = load(server)
    /\ UNCHANGED otherVars

\* startServer() up to its await: db.initialize() is under way, or, with no
\* store, the server listens at once.
StartServer ==
    /\ server.phase = "starting"
    /\ server' = IF server.db # "null"
                 THEN [server EXCEPT !.phase = "initializing"]
                 ELSE startServer(server, "none")
    /\ UNCHANGED otherVars

\* db.initialize() returns or throws, and startServer goes on.
InitializeEnds ==
    /\ server.phase = "initializing"
    /\ \E outcome \in {"returns", "throws"} : server' = startServer(server, outcome)
    /\ UNCHANGED otherVars

\* A request to the listening process, up to the handler that takes it.
Request(method, path) ==
    /\ server.phase = "listening"
    /\ server.method = "none"
    /\ LET kind == Dispatch(handlers(server), method, path, server.env.public) IN
       server' = [server EXCEPT !.method = method, !.path = path,
                                !.taken = kind, !.code = DispatchStatus(kind)]
    /\ UNCHANGED otherVars

\* process.on('SIGTERM' / 'SIGINT'): process.exit(0).
Signal ==
    /\ server.phase \in {"starting", "initializing", "listening"}
    /\ server' = [server EXCEPT !.phase = "exited", !.exitCode = 0,
                                !.listening = FALSE]
    /\ UNCHANGED otherVars

InitStart ==
    /\ items = EmptyTable
    /\ nextId = 1
    /\ clock = 1
    /\ calls = [c \in Callers |-> IdleCall]
    /\ resp = NoResp
    /\ base = EmptyTable
    /\ metrics = "MetricsCollector"
    /\ returned = NotCalled
    /\ recorded = NoSamples
    /\ registry = EmptyRegistry
    /\ proxy = StartedFrontend
    /\ server \in {Process(env) : env \in Environments}

NextStart ==
    \/ Load
    \/ StartServer
    \/ InitializeEnds
    \/ \E method \in Methods, path \in Paths : Request(method, path)
    \/ Signal

SpecStart == InitStart /\ [][NextStart]_vars

(* --------------------- reorder with faults in the loop ----------------- *)

\* A pass of the loop whose UPDATE fails in the store: nothing is written,
\* updateItemOrder throws, reorderItems logs and throws on, both wrappers
\* record a failure and the route answers 500. The passes before it stay.
ReorderWriteFails(c) ==
    LET call == calls[c] IN
    /\ call.pc = "write"
    /\ call.i < Len(call.filteredItems)
    /\ \E rec1, rec2 \in RecordOutcomes(metrics) :
         LET write == instrumentDatabase("updateItemOrder", Throws("SQLITE_ERROR"), rec1)
             outer == instrumentDatabase("reorderItems", write.outcome, rec2)
         IN
         /\ calls' = [calls EXCEPT ![c] = Ended("failed", call.draggedId, call.targetId)]
         /\ returned' = outer.outcome
         /\ resp' = Answer("reorder", outer.outcome)
         /\ recorded' = Finished(write.samples \o outer.samples,
                                 "POST", ReorderRoute, resp'.code)
    /\ UNCHANGED <<items, nextId, clock, base, metrics>>

\* SIGTERM or SIGINT while the loop is between two passes: process.exit(0),
\* the request gets no answer and the rows stay as the passes left them.
Terminated(c) ==
    LET call == calls[c] IN
    /\ call.pc = "write"
    /\ server.phase = "listening"
    /\ calls' = [calls EXCEPT ![c] = Ended("stopped", call.draggedId, call.targetId)]
    /\ server' = [server EXCEPT !.phase = "exited", !.exitCode = 0,
                                !.listening = FALSE]
    /\ resp' = Unanswered("reorder")
    /\ returned' = NotCalled
    /\ recorded' = NoSamples
    /\ UNCHANGED <<items, nextId, clock, base, metrics, registry, proxy>>

\* One reorder request in which a pass can fail and the process can be stopped.
NextFaults ==
    \/ \E draggedId, targetId \in RowIds :
          calls[1].pc = "idle" /\ ReorderRead(1, draggedId, targetId) /\ Untracked
    \/ server.phase = "listening" /\ ReorderWrite(1) /\ Untracked
    \/ server.phase = "listening" /\ ReorderWriteFails(1) /\ Untracked
    \/ Terminated(1)

SpecFaults == InitReorder /\ [][NextFaults]_vars

(* ------------------------------ claims --------------------------------- *)

\* The results list() may return for a table.
ListResults(table) == {getAllLearningItems(table, scan) : scan \in ScanOrders(table)}

\* The rank of the ordering key: todo < progress < completed < anything else.
KnownStatuses == <<"todo", "progress", "completed">>
KeyRank(status) ==
    IF \E k \in 1..Len(KnownStatuses) : KnownStatuses[k] = status
    THEN CHOOSE k \in 1..Len(KnownStatuses) : KnownStatuses[k] = status
    ELSE Len(KnownStatuses) + 1

\* Row a may stand before row b in a sequence sorted by
\* (statusRank, position) ascending, ties broken by createdAt descending.
KeyLeq(a, b) ==
    \/ KeyRank(a.status) < KeyRank(b.status)
    \/ KeyRank(a.status) = KeyRank(b.status) /\ a.order_index < b.order_index
    \/ /\ KeyRank(a.status) = KeyRank(b.status)
       /\ a.order_index = b.order_index
       /\ a.created_at >= b.created_at

\* list is a sequence of every row of the table exactly once, sorted by the key.
IsSortedListing(table, list) ==
    /\ Len(list) = Cardinality(DOMAIN table)
    /\ {list[k] : k \in 1..Len(list)} = DOMAIN table
    /\ \A j, k \in 1..Len(list) : j < k => KeyLeq(table[list[j]], table[list[k]])

\* C1: in every state the operations reach, whatever list() returns holds every
\* stored record exactly once, sorted ascending by (statusRank, position) with
\* ties broken by createdAt descending.
C1_ListSorted == \A list \in ListResults(items) : IsSortedListing(items, list)

\* C1 witness: two records that agree on status and position and differ in
\* createdAt are stored, and the newer one is listed first.
C1_Witness ==
    /\ DOMAIN items = {1, 2}
    /\ items[1].status = items[2].status
    /\ items[1].order_index = items[2].order_index
    /\ items[1].created_at < items[2].created_at
    /\ ListResults(items) = {<<2, 1>>}

\* C6: setStatus(id, s) on an existing record stores s verbatim and sets
\* resolved = (s = "completed"); a status that is none of the three known ones
\* is listed behind every record with a known status.
C6_SetStatus ==
    [][\A id \in Ids, s \in Statuses :
          (resp'.op = "status" /\ id \in DOMAIN items /\ PostStatus(id, s)) =>
             /\ items'[id].status = s
             /\ items'[id].resolved = (s = "completed")
             /\ s \notin {"todo", "progress", "completed"} =>
                  \A list \in ListResults(items'), other \in DOMAIN items' :
                     items'[other].status \in {"todo", "progress", "completed"} =>
                        findIndex(list, other) < findIndex(list, id)]_vars

\* C6 witness: a status-set has just been answered, a completed record shows
\* resolved = true and a record with an unknown status is listed last.
C6_Witness ==
    /\ resp.op = "status" /\ resp.ret = 1
    /\ DOMAIN items = {1, 2}
    /\ items[1].status = "archived"
    /\ items[2].status = "completed" /\ items[2].resolved
    /\ ListResults(items) = {<<2, 1>>}

\* C7 as stated: a status-set leaves the resolved flag of the record at the
\* value it had before the call.
C7_StatusKeepsResolved ==
    [][\A id \in Ids, s \in Statuses :
          (resp'.op = "status" /\ id \in DOMAIN items /\ PostStatus(id, s)) =>
             items'[id].resolved = items[id].resolved]_vars

\* C7 amended: a status-set overwrites resolved with (s = "completed"), so it
\* leaves the flag as it was exactly when the flag already had that value; and
\* resolved changes only in resolve, unresolve and status-set requests.
C7_StatusOverwritesResolved ==
    [][/\ \A id \in Ids, s \in Statuses :
            (resp'.op = "status" /\ id \in DOMAIN items /\ PostStatus(id, s)) =>
               ((items'[id].resolved = items[id].resolved)
                   <=> (items[id].resolved = (s = "completed")))
       /\ \A id \in DOMAIN items \cap DOMAIN items' :
            items'[id].resolved # items[id].resolved =>
               resp'.op \in {"resolve", "unresolve", "status"}]_vars

\* C7 witness: a status-set has just been answered and left a record resolved
\* next to one it left unresolved.
C7_Witness ==
    /\ resp.op = "status" /\ resp.ret = 1
    /\ \E id \in DOMAIN items : items[id].resolved /\ items[id].status = "completed"
    /\ \E id \in DOMAIN items : ~items[id].resolved /\ items[id].status = "progress"

\* C8 as stated, by the one way the operations could produce the combination:
\* a status-set to a status other than completed on a resolved record leaves it
\* resolved, so that it ends with resolved = true and status # completed.
C8_IndependentlySettable ==
    [][\A id \in Ids, s \in Statuses \ {"completed"} :
          (resp'.op = "status" /\ id \in DOMAIN items /\ items[id].resolved
              /\ PostStatus(id, s)) =>
             (items'[id].resolved /\ items'[id].status # "completed")]_vars

\* C8 amended: the operations keep the two fields consistent; no sequence of
\* them reaches a record with resolved = true and status # completed (nor one
\* with resolved = false and status = completed).
C8_ResolvedIffCompleted ==
    \A id \in DOMAIN items : items[id].resolved = (items[id].status = "completed")

\* C8 witness: after a status-set, a record that is not resolved carries a
\* status other than completed while another record is resolved and completed.
C8_Witness ==
    /\ resp.op = "status" /\ resp.ret = 1
    /\ \E id \in DOMAIN items : ~items[id].resolved /\ items[id].status = "archived"
    /\ \E id \in DOMAIN items : items[id].resolved

\* The row and the rest of the table, but for status and resolved, are as before.
OnlyStatusAndResolved(before, after, id) ==
    /\ DOMAIN after = DOMAIN before
    /\ \A k \in DOMAIN before \ {id} : after[k] = before[k]
    /\ after[id] = [before[id] EXCEPT !.status = after[id].status,
                                      !.resolved = after[id].resolved]

\* C9: resolve(id) sets resolved = true and status = completed in one step,
\* unresolve(id) sets resolved = false and status = todo in one step (every
\* step changes both fields or neither), and resolve followed by unresolve
\* leaves status = todo and resolved = false whatever the status was.
C9_ResolveUnresolve ==
    /\ [](\A id \in DOMAIN items :
            LET after == unresolveItem(resolveItem(items, id), id) IN
            /\ after[id].status = "todo" /\ after[id].resolved = FALSE
            /\ OnlyStatusAndResolved(items, after, id))
    /\ [][\A id \in Ids :
            /\ (resp'.op = "resolve" /\ id \in DOMAIN items /\ PostResolve(id)) =>
                  /\ items'[id].resolved /\ items'[id].status = "completed"
                  /\ OnlyStatusAndResolved(items, items', id)
            /\ (resp'.op = "unresolve" /\ id \in DOMAIN items /\ PostUnresolve(id)) =>
                  /\ ~items'[id].resolved /\ items'[id].status = "todo"
                  /\ OnlyStatusAndResolved(items, items', id)]_vars

\* C9 witness: an unresolve has just been answered for a stored record, which
\* is now todo and not resolved, next to a record that a resolve left completed.
C9_Witness ==
    /\ resp.op = "unresolve" /\ resp.ret = 1
    /\ \E id \in DOMAIN items : items[id].status = "todo" /\ ~items[id].resolved
    /\ \E id \in DOMAIN items : items[id].status = "completed" /\ items[id].resolved

\* A body value that is missing, or text that is blank after trimming.
MissingOrBlank(v) ==
    \/ v = Undefined
    \/ v.t = "string" /\ \A k \in 1..Len(v.s) : v.s[k] = " "

\* C10: a create request whose title or description is missing or blank is
\* answered 400 {success:false} and leaves the store unchanged; any other create
\* request is answered 200 {success:true} and adds exactly one record with a new
\* id, status todo, resolved false and position 0, leaving the others unchanged;
\* no record with a blank title or description is stored.
C10_CreateValidated ==
    /\ [](\A id \in DOMAIN items :
            ~MissingOrBlank(items[id].title) /\ ~MissingOrBlank(items[id].description))
    /\ [][\A title, description \in BodyValues :
            (resp'.op = "create" /\ PostApiItems(title, description)) =>
               IF MissingOrBlank(title) \/ MissingOrBlank(description)
               THEN /\ resp'.code = 400 /\ resp'.body = "success_false"
                    /\ items' = items
               ELSE /\ resp'.code = 200 /\ resp'.body = "success_true"
                    /\ \E new \in Ids \ DOMAIN items :
                         /\ new >= nextId
                         /\ DOMAIN items' = DOMAIN items \cup {new}
                         /\ items'[new].status = "todo"
                         /\ items'[new].resolved = FALSE
                         /\ items'[new].order_index = 0
                    /\ \A id \in DOMAIN items : items'[id] = items[id]]_vars

(* ------------------- claims on the reorder scenarios ------------------- *)

\* 1-based place of id in seq (0 when absent).
Place(seq, id) == findIndex(seq, id) + 1

\* seq is list with moved taken out and put back immediately before target,
\* every other record keeping its place relative to the others.
MovedBefore(list, seq, moved, target) ==
    /\ Len(seq) = Len(list)
    /\ {seq[k] : k \in 1..Len(seq)} = {list[k] : k \in 1..Len(list)}
    /\ Place(seq, moved) + 1 = Place(seq, target)
    /\ \A a, b \in {list[k] : k \in 1..Len(list)} \ {moved} :
          (Place(list, a) < Place(list, b)) <=> (Place(seq, a) < Place(seq, b))

\* C2: a reorder(moved, target) with moved # target, both present, run to its
\* end with nothing interleaved, builds its sequence as the list() order with
\* moved taken out and re-inserted immediately before target, writes to every
\* record its 0-based index in that sequence, and leaves the positions of the n
\* records exactly 0..n-1, pairwise distinct.
C2_ReorderRenumbers ==
    [][LET call == calls[1]
           seq == call.filteredItems
           moved == calls'[1].draggedId
           target == calls'[1].targetId
       IN
       /\ (call.pc = "idle" /\ calls'[1].pc # "idle" /\ moved # target
              /\ moved \in DOMAIN items /\ target \in DOMAIN items) =>
            /\ calls'[1].pc = "write"
            /\ IsSortedListing(items, calls'[1].items)
            /\ MovedBefore(calls'[1].items, calls'[1].filteredItems, moved, target)
       /\ (call.pc = "write" /\ call.draggedId # call.targetId) =>
            /\ items'[seq[call.i + 1]].order_index = call.i
            /\ \A k \in 1..call.i : items'[seq[k]].order_index = k - 1
            /\ calls'[1].pc = "done" =>
                 /\ \A k \in 1..Len(seq) : items'[seq[k]].order_index = k - 1
                 /\ {items'[id].order_index : id \in DOMAIN items'}
                       = 0..(Cardinality(DOMAIN items') - 1)
                 /\ \A a, b \in DOMAIN items' :
                       a # b => items'[a].order_index # items'[b].order_index
                 /\ resp'.code = 200]_vars

\* C2 witness: three records that all had position 0 have been reordered and
\* now carry the positions 0, 1, 2.
C2_Witness ==
    /\ calls[1].pc = "done" /\ calls[1].draggedId # calls[1].targetId
    /\ DOMAIN base = {1, 2, 3}
    /\ \A id \in DOMAIN base : base[id].order_index = 0
    /\ {items[id].order_index : id \in DOMAIN items} = {0, 1, 2}

\* The table of C3: A = 1, B = 2, C = 3 at positions 0, 1, 2, all todo.
ThreeTodoInOrder(table) ==
    /\ DOMAIN table = {1, 2, 3}
    /\ \A id \in {1, 2, 3} : table[id].status = "todo" /\ table[id].order_index = id - 1

\* C3 as stated: from [A, B, C], reorder(A, C) yields the list order [B, C, A]
\* with positions 0, 1, 2.
C3_MovedBehindTarget ==
    (ThreeTodoInOrder(base) /\ calls[1] = Ended("done", 1, 3)) =>
        /\ ListResults(items) = {<<2, 3, 1>>}
        /\ items[2].order_index = 0 /\ items[3].order_index = 1
        /\ items[1].order_index = 2

\* C3 amended: from [A, B, C], reorder(A, C) yields the list order [B, A, C]
\* with positions 0, 1, 2: A is put immediately before C.
C3_MovedBeforeTarget ==
    (ThreeTodoInOrder(base) /\ calls[1] = Ended("done", 1, 3)) =>
        /\ ListResults(items) = {<<2, 1, 3>>}
        /\ items[2].order_index = 0 /\ items[1].order_index = 1
        /\ items[3].order_index = 2

\* C3 witness: reorder(A, C) has run to its end on the table [A, B, C].
C3_Witness == ThreeTodoInOrder(base) /\ calls[1] = Ended("done", 1, 3)

\* C5: a reorder whose moved or target id is absent from the store fails, is
\* answered 500 {success:false} and changes no record (it never gets to write).
C5_ReorderNotFound ==
    LET call == calls[1] IN
    (call.pc # "idle"
       /\ (call.draggedId \notin DOMAIN base \/ call.targetId \notin DOMAIN base)) =>
        /\ call.pc = "failed"
        /\ resp = Json("reorder", -1, 500, FALSE)
        /\ items = base

\* C5 witness: a reorder of a stored record onto an absent target has failed.
C5_Witness ==
    /\ calls[1].pc = "failed"
    /\ calls[1].draggedId \in DOMAIN base
    /\ calls[1].targetId \notin DOMAIN base
    /\ Cardinality(DOMAIN base) = 2

(* ------------------ claims on two concurrent reorders ------------------ *)

\* The tables two reorder calls leave when run one after the other, in either order.
SerialOutcomes(table, first, second) ==
    LET Seq2(a, b) ==
            UNION {{reorderItems(mid, b.draggedId, b.targetId, scan) :
                       scan \in ScanOrders(mid)} :
                   mid \in {reorderItems(table, a.draggedId, a.targetId, scan) :
                               scan \in ScanOrders(table)}}
    IN  Seq2(first, second) \cup Seq2(second, first)

BothDone == \A c \in Callers : calls[c].pc = "done"

\* C4 as stated: when two concurrent reorder calls have ended, the positions of
\* all records are those of running the two calls one after the other, in at
\* least one of the two orders.
C4_Serializable == BothDone => items \in SerialOutcomes(base, calls[1], calls[2])

\* C4 amended: every position written is the index the writing call gave the
\* record in the sequence it built from its own read, positions change in no
\* other way, and when both calls have ended every position lies in 0..n-1;
\* the positions need not be distinct nor those of either serial order.
C4_LastWriterWins ==
    /\ [](BothDone =>
            \A id \in DOMAIN items :
               items[id].order_index \in 0..(Cardinality(DOMAIN items) - 1))
    /\ [][\A id \in DOMAIN items :
            items'[id].order_index # items[id].order_index =>
               \E c \in Callers :
                  /\ calls[c].pc = "write"
                  /\ calls[c].filteredItems[calls[c].i + 1] = id
                  /\ items'[id].order_index = calls[c].i
                  /\ calls'[c].pc = "done" \/ calls'[c].i = calls[c].i + 1]_vars

\* C4 witness: both calls have ended, two records share a position and the
\* table is the outcome of neither serial order.
C4_Witness ==
    /\ BothDone
    /\ \E a, b \in DOMAIN items : a # b /\ items[a].order_index = items[b].order_index
    /\ items \notin SerialOutcomes(base, calls[1], calls[2])

(* ------------------ claims on delete, absent ids, positions ------------ *)

\* C11: delete(id) on a stored record returns a positive row count and removes
\* exactly that record (one record fewer, every other record as before);
\* delete(id) on an id that is not stored (so also a second delete of the same
\* id) returns 0 and changes nothing; the endpoint answers 200 {success:true}
\* in both cases and no error is raised.
C11_DeleteTwice ==
    [][\A id \in Ids :
          (resp'.op = "delete" /\ DeleteApiItem(id)) =>
             /\ returned'.kind = "returns"
             /\ resp'.code = 200 /\ resp'.body = "success_true"
             /\ IF id \in DOMAIN items
                THEN /\ resp'.ret > 0
                     /\ DOMAIN items' = DOMAIN items \ {id}
                     /\ Cardinality(DOMAIN items') = Cardinality(DOMAIN items) - 1
                     /\ \A k \in DOMAIN items' : items'[k] = items[k]
                ELSE /\ resp'.ret = 0
                     /\ items' = items]_vars

\* C11 witness: every id has been created and deleted, and the delete answered
\* last found nothing to delete: it was a repeated delete, answered 200.
C11_Witness ==
    /\ nextId = MaxId + 1
    /\ items = EmptyTable
    /\ resp = Json("delete", 0, 200, TRUE)

\* The step is a call of setStatus, resolve, unresolve or setPosition with id.
UpdateOf(id) ==
    \/ resp'.op = "status" /\ \E s \in Statuses : PostStatus(id, s)
    \/ resp'.op = "resolve" /\ PostResolve(id)
    \/ resp'.op = "unresolve" /\ PostUnresolve(id)
    \/ resp'.op = "setPosition" /\ \E p \in 0..MaxPos : SetPosition(id, p)

\* C12: setStatus, resolve, unresolve and setPosition with an id that is not
\* stored report zero rows, raise no error (the endpoints answer 200
\* {success:true}) and leave every stored record as it was.
C12_AbsentIdNoOp ==
    [][\A id \in Ids :
          (id \notin DOMAIN items /\ UpdateOf(id)) =>
             /\ returned' = Returns(0)
             /\ resp'.ret = 0
             /\ resp'.op # "setPosition" =>
                   resp'.code = 200 /\ resp'.body = "success_true"
             /\ items' = items]_vars

\* C12 witness: with one record stored, a status-set for the other id has just
\* reported zero rows.
C12_Witness ==
    /\ Cardinality(DOMAIN items) = 1
    /\ resp = Json("status", 0, 200, TRUE)
    /\ returned = Returns(0)

\* C13: setPosition(id, p) on a stored record sets its position to p and
\* changes nothing else: the record's other fields and every other record,
\* position included, are as before, so positions can collide and leave gaps.
C13_SetPositionOnly ==
    [][\A id \in Ids, p \in 0..MaxPos :
          (resp'.op = "setPosition" /\ id \in DOMAIN items /\ SetPosition(id, p)) =>
             /\ DOMAIN items' = DOMAIN items
             /\ items'[id] = [items[id] EXCEPT !.order_index = p]
             /\ \A k \in DOMAIN items \ {id} : items'[k] = items[k]]_vars

\* C13 witness: a setPosition has just put a record on the position another
\* record holds, with nothing on the positions below it.
C13_Witness ==
    /\ resp.op = "setPosition" /\ resp.ret = 1
    /\ DOMAIN items = {1, 2}
    /\ items[1].order_index = MaxPos /\ items[2].order_index = MaxPos

\* The ordering key of a row.
OrderKey(row) == <<statusRank(row.status), row.order_index, row.created_at>>

\* C14: in every state the operations reach, no two distinct records have the
\* same (statusRank(status), position, createdAt), and list() has exactly one
\* possible result.
C14_KeyTotalOrder ==
    /\ \A a, b \in DOMAIN items : a # b => OrderKey(items[a]) # OrderKey(items[b])
    /\ Cardinality(ListResults(items)) = 1

(* --------------------- claims on the instrumented store ---------------- *)

\* The success labels of a sequence of store samples.
SuccessLabels(samples) == [k \in 1..Len(samples) |-> samples[k].success]

\* The step is a call of one of the five methods that take an id.
CallOf(id) == UpdateOf(id) \/ (resp'.op = "delete" /\ DeleteApiItem(id))

\* The step is such a call and table is what the un-instrumented method
\* leaves of the rows.
CallWithId(id, table) ==
    \/ resp'.op = "delete" /\ DeleteApiItem(id) /\ table = deleteLearningItem(items, id)
    \/ resp'.op = "resolve" /\ PostResolve(id) /\ table = resolveItem(items, id)
    \/ resp'.op = "unresolve" /\ PostUnresolve(id) /\ table = unresolveItem(items, id)
    \/ /\ resp'.op = "status"
       /\ \E s \in Statuses : PostStatus(id, s) /\ table = updateItemStatus(items, id, s)
    \/ /\ resp'.op = "setPosition"
       /\ \E p \in 0..MaxPos : SetPosition(id, p) /\ table = updateItemOrder(items, id, p)

\* C15: a call through the instrumented store gives its caller exactly the
\* value the wrapped method returns, or exactly the error it throws, has the
\* effect on the rows that the wrapped method has, and records its sample with
\* success true when the method returned and false when it threw.
C15_GatewayObservational ==
    /\ [](calls[1].pc = "done" =>
            items \in {reorderItems(base, calls[1].draggedId, calls[1].targetId, scan) :
                          scan \in ScanOrders(base)})
    /\ [][/\ (resp'.op = "list" /\ GetApiItems) =>
               /\ returned' = Returns(-1)
               /\ resp'.rows \in ListResults(items)
               /\ items' = items
               /\ SuccessLabels(recorded'.db) = <<"true">>
          /\ \A title, description \in BodyValues :
               (resp'.op = "create" /\ ValidationOutcome(title, description) = "accept"
                   /\ PostApiItems(title, description)) =>
                  /\ returned' = Returns(nextId)
                  /\ items' = addLearningItem(items, nextId, title, description, clock)
                  /\ SuccessLabels(recorded'.db) = <<"true">>
          /\ \A id \in RowIds :
               CallOf(id) =>
                  /\ CallWithId(id, items')
                  /\ returned' = Returns(changes(items, id))
                  /\ SuccessLabels(recorded'.db) = <<"true">>
          /\ (calls[1].pc = "idle" /\ calls'[1].pc # "idle") =>
               /\ items' = items
               /\ IF notFound(calls'[1].items, calls'[1].draggedId, calls'[1].targetId)
                     /\ calls'[1].pc = "failed"
                  THEN /\ calls'[1].draggedId \notin DOMAIN items
                          \/ calls'[1].targetId \notin DOMAIN items
                       /\ returned' = Throws("Item not found")
                       /\ SuccessLabels(recorded'.db) = <<"true", "false">>
                  ELSE /\ calls'[1].pc = "write"
                       /\ returned' = returned
                       /\ SuccessLabels(recorded'.db) = <<"true">>
          /\ calls[1].pc = "write" =>
               /\ items' = updateItemOrder(items,
                              calls[1].filteredItems[calls[1].i + 1], calls[1].i)
               /\ IF calls[1].i + 1 = Len(calls[1].filteredItems)
                  THEN /\ calls'[1].pc = "done"
                       /\ returned' = Returns(-1)
                       /\ SuccessLabels(recorded'.db) = <<"true", "true">>
                  ELSE /\ calls'[1].pc = "write"
                       /\ returned' = returned
                       /\ SuccessLabels(recorded'.db) = <<"true">>]_vars

\* C15 witness: a reorder through the instrumented store has thrown 'Item not
\* found' to its caller and was recorded with success false, the rows untouched.
C15_Witness ==
    /\ calls[1].pc = "failed"
    /\ returned = Throws("Item not found")
    /\ SuccessLabels(recorded.db) = <<"true", "false">>
    /\ items = base /\ Cardinality(DOMAIN items) = 2

\* The kind and the name a sample of each operation is to carry.
ExpectedLabels ==
    [list |-> <<"read", "getAllLearningItems">>,
     create |-> <<"create", "addLearningItem">>,
     delete |-> <<"delete", "deleteLearningItem">>,
     resolve |-> <<"update", "resolveItem">>,
     unresolve |-> <<"update", "unresolveItem">>,
     status |-> <<"update", "updateItemStatus">>,
     setPosition |-> <<"update", "updateItemOrder">>,
     reorder |-> <<"update", "reorderItems">>]

\* The kind and the name a sample carries.
LabelsOf(sample) == <<sample.operation, sample.method>>

\* C16: every sample carries the kind fixed for its operation (list: read,
\* create: create, delete: delete, resolve, unresolve, setStatus, setPosition
\* and reorder: update) and the operation's own name, whatever the arguments
\* and whether the call returned or threw.
C16_FixedKinds ==
    [][/\ \A k \in 1..Len(recorded'.db) :
            \E op \in DOMAIN ExpectedLabels :
               LabelsOf(recorded'.db[k]) = ExpectedLabels[op]
       /\ (resp' # resp /\ recorded'.db # <<>>) =>
            LabelsOf(recorded'.db[Len(recorded'.db)]) = ExpectedLabels[resp'.op]
       /\ (calls[1].pc = "idle" /\ calls'[1].pc # "idle") =>
            LabelsOf(recorded'.db[1]) = ExpectedLabels["list"]
       /\ calls[1].pc = "write" =>
            LabelsOf(recorded'.db[1]) = ExpectedLabels["setPosition"]]_vars

\* C16 witness: a reorder has ended with its last position write and its own
\* sample recorded, both of kind update.
C16_Witness ==
    /\ resp = Json("reorder", -1, 200, TRUE)
    /\ recorded.db = <<recordDbOperation("update", "updateItemOrder", TRUE),
                       recordDbOperation("update", "reorderItems", TRUE)>>

\* The labels the HTTP sample of an answered request is to carry: method and
\* normalized route by operation, and the status code as text.
ExpectedHttp(op, code) ==
    [method |-> CASE op \in {"list", "unrouted"} -> "GET"
                  [] op = "delete" -> "DELETE"
                  [] OTHER -> "POST",
     route |-> CASE op \in {"list", "create"} -> <<"api", "items">>
                 [] op \in {"delete", "unrouted"} -> <<"api", "items", ":id">>
                 [] op = "reorder" -> <<"api", "items", "reorder">>
                 [] OTHER -> <<"api", "items", ":id", op>>,
     status |-> CASE code = 200 -> "200" [] code = 400 -> "400"
                  [] code = 404 -> "404" [] code = 500 -> "500"]

\* The sample of a create that returned.
CreateSample == [operation |-> "create", method |-> "addLearningItem", success |-> "true"]

\* C17: one create call through the instrumented store adds exactly one to
\* the store counter, on the label set create / success "true", and nothing
\* to any other; every request that is answered adds exactly one to the HTTP
\* counter, on the label set of its method, normalized route and status code,
\* and a step that answers no request adds nothing to it.
C17_CountedOnce ==
    [][/\ \A title, description \in BodyValues :
            (resp'.op = "create" /\ ValidationOutcome(title, description) = "accept"
                /\ PostApiItems(title, description)) =>
               registry'.db = registry.db (+) SetToBag({CreateSample})
       /\ IF resp' # resp /\ resp'.code # 0
          THEN registry'.http =
                  registry.http (+) SetToBag({ExpectedHttp(resp'.op, resp'.code)})
          ELSE registry'.http = registry.http]_vars

\* C17 witness: a process that had answered one create request has answered a
\* second one; both counters stand at two on the create label sets.
C17_Witness ==
    /\ resp.op = "create" /\ resp.code = 200
    /\ CopiesIn(CreateSample, registry.db) = 2 /\ Total(registry.db) = 2
    /\ CopiesIn(ExpectedHttp("create", 200), registry.http) = 2
    /\ Total(registry.http) = 2

\* C18: when recording the sample throws, the caller of the instrumented
\* store still gets the method's own value (or its own error), and the request
\* is answered as if the recording had succeeded.
C18_RecordingFailureSwallowed ==
    [][/\ \A id \in RowIds :
            CallOf(id) =>
               /\ returned' = Returns(changes(items, id))
               /\ resp'.op # "setPosition" =>
                     resp' = Json(resp'.op, changes(items, id), 200, TRUE)
       /\ \A title, description \in BodyValues :
            (resp'.op = "create" /\ ValidationOutcome(title, description) = "accept"
                /\ PostApiItems(title, description)) =>
               /\ returned' = Returns(nextId)
               /\ resp' = Json("create", nextId, 200, TRUE)]_vars

(* ------------------- claims on the frontend mode ----------------------- *)

\* The route's answer was made from an answer of the peer.
AnsweredFromPeer ==
    /\ proxy.resp # NoAnswer
    /\ proxy.resp.error \notin {ConnectMessage, TimeoutMessage}

\* C19: in frontend mode no store object is created or initialized, and an
\* item request (list, create, delete, status, resolve, unresolve, reorder)
\* issues exactly one call to the peer, whether the call succeeds or fails: a
\* request taken up has one call on record, an answered request still has
\* one, and a call that did not reach the peer leaves every stored row and the
\* peer as they were.
C19_OneOutboundCall ==
    /\ proxy.db = "null"
    /\ ~proxy.initialized
    /\ Len(proxy.calls) <= 1
    /\ proxy.resp # NoAnswer => Len(proxy.calls) = 1
    /\ calls[1].pc # "idle" \/ resp # NoResp => Len(proxy.calls) = 1
    /\ proxy.resp.error = ConnectMessage =>
          /\ items = base
          /\ resp = NoResp
          /\ returned = NotCalled
          /\ recorded = NoSamples

\* A reorder forwarded with one call that the peer completed, the route
\* answering 200.
C19_Witness ==
    /\ proxy.calls = <<[method |-> "post", url |-> ReorderRoute]>>
    /\ calls[1].pc = "done"
    /\ items # base
    /\ proxy.resp.code = 200

\* C20 as stated: the answer of a frontend process, status code and body, is
\* the answer its peer gives to the same request, for successful outcomes and
\* for error outcomes.
C20_SameAcrossTopologies ==
    AnsweredFromPeer => proxy.resp = Visible(resp)

\* C20: the answer of a frontend process made from its peer's answer carries
\* the peer's status code; for a 2xx answer it carries the peer's body too,
\* while for any other the body is { success: false, error } with the message
\* of the rejected call in place of the peer's error text (or of its page).
C20_SameStatusOwnErrorBody ==
    AnsweredFromPeer =>
        /\ resp.code # 0
        /\ proxy.resp.code = resp.code
        /\ resp.code \in 200..299 => proxy.resp = Visible(resp)
        /\ resp.code \notin 200..299 =>
              /\ proxy.resp.body = "success_false"
              /\ proxy.resp.error = BadStatusMessage
              /\ proxy.resp.error # Visible(resp).error

\* A create the peer refused with 400 and its validation text, forwarded
\* with 400 and the other message.
C20_Witness ==
    /\ resp = Json("create", -1, 400, FALSE)
    /\ Visible(resp).error = "Title and description are required"
    /\ proxy.resp = Rejected(400, BadStatusMessage)

\* C21: in frontend mode a peer answer with a status outside 2xx is answered
\* with that status and { success: false, error: message }; with no status
\* known (no connection, or the timeout passed) the answer is 500 with
\* { success: false, error: message }; in both cases the one call made stays
\* the only one, also while the peer goes on and completes the request.
C21_ProxyFailureStatus ==
    proxy.resp # NoAnswer /\ proxy.resp.code \notin 200..299 =>
        /\ proxy.resp.body = "success_false"
        /\ proxy.resp.rows = <<>>
        /\ Len(proxy.calls) = 1
        /\ IF AnsweredFromPeer
           THEN /\ resp.code \notin 200..299
                /\ proxy.resp.code = resp.code
                /\ proxy.resp.error = BadStatusMessage
           ELSE /\ proxy.resp.code = 500
                /\ proxy.resp.error \in {ConnectMessage, TimeoutMessage}

\* A reorder whose call timed out while the peer went on to complete it: one
\* call on record, answer 500.
C21_Witness ==
    /\ proxy.resp = Rejected(0, TimeoutMessage)
    /\ proxy.calls = <<[method |-> "post", url |-> ReorderRoute]>>
    /\ calls[1].pc = "done"
    /\ resp.code = 200

(* ---------------------- claims on the UI page -------------------------- *)

Loaded == server.phase \in {"starting", "initializing", "listening"}

\* The request answered is the given one.
Asked(method, path) == server.method = method /\ server.path = path

\* C23: the UI page route is registered exactly in all-in-one and frontend
\* modes; in api mode GET / is taken by no handler and is answered 404, while
\* the seven item routes are taken by the local handlers and /health by the
\* health handler.
C23_PageRouteByMode ==
    Loaded =>
      /\ (\E k \in 1..Len(handlers(server)) : handlers(server)[k].kind = "page")
            <=> server.config.mode \in {"all-in-one", "frontend"}
      /\ Asked("GET", PageRoute) =>
            IF server.config.mode = "api"
            THEN server.taken = "none" /\ server.code = 404
            ELSE server.taken = "page"
      /\ server.config.mode = "api" =>
            /\ \A route \in {ItemsRoute, <<"api", "items", "1", "status">>, ReorderRoute} :
                  Asked("POST", route) => server.taken = "local"
            /\ Asked("GET", ItemsRoute) => server.taken = "local"
            /\ Asked("DELETE", <<"api", "items", "1">>) => server.taken = "local"
            /\ Asked("GET", HealthRoute) => server.taken = "health" /\ server.code = 200

\* GET / asked of a listening process in api mode that has files under public.
C23_Witness ==
    /\ server.config.mode = "api"
    /\ server.env.public # {}
    /\ Asked("GET", PageRoute)
    /\ server.code = 404

\* C24 as stated: the pipeline of a process in api mode holds no static-asset
\* handler and renders no view: only /api/* routes, /health and (with no
\* metrics port) /metrics take requests.
C24_ApiModeNoStatic ==
    Loaded /\ server.config.mode = "api" =>
      /\ \A k \in 1..Len(handlers(server)) :
            handlers(server)[k].kind \notin {"static", "page", "form"}
      /\ server.method = "GET" => server.taken \in {"none", "local", "health", "metrics"}

\* C25 as stated: a process started in frontend mode with API_BASE_URL unset
\* exits before it listens and takes no request.
C25_NoPeerAddressIsFatal ==
    server.env.APP_MODE = "frontend" /\ server.env.API_BASE_URL = "unset" =>
      /\ ~server.listening
      /\ server.method = "none"
      /\ server.phase = "exited" => server.exitCode # 0

\* C26: with an invalid mode, or when initialize() of the store throws in a
\* local mode, the process exits with a non-zero code without ever listening;
\* in api and all-in-one modes the process listens only with the store
\* initialized; and no step changes the configuration, the mode with it.
C26_FatalAtStartup ==
    /\ []( /\ server.config.mode \notin validModes =>
                 /\ ~server.listening
                 /\ server.phase \in {"load", "exited"}
                 /\ server.phase = "exited" => server.exitCode = 1
           /\ server.listening =>
                 /\ server.config.mode \in validModes
                 /\ server.db = createStore(server.config.mode)
                 /\ server.config.mode \in {"api", "all-in-one"} => server.initialized )
    /\ [][ /\ server'.config = server.config
           /\ server'.env = server.env
           /\ server.phase = "initializing" /\ server'.phase = "exited"
                 /\ server'.exitCode # 0 => ~server'.listening /\ ~server'.initialized
           /\ server.phase = "exited" => server' = server ]_vars

\* A process in api mode whose initialize() threw: exited with 1, not listening.
C26_Witness ==
    /\ server.config.mode = "api"
    /\ server.phase = "exited"
    /\ server.exitCode = 1
    /\ ~server.listening
    /\ server.db = "Database"

(* ------------------ claims on reorder and list order ------------------- *)

\* Every record is listed at the index that is its position.
ListedAtPositions(table, list) ==
    \A k \in 1..Len(list) : table[list[k]].order_index = k - 1

\* A reorder of two different records has run to its end.
ReorderedTwo ==
    /\ calls[1].pc = "done"
    /\ calls[1].draggedId # calls[1].targetId

\* C27 as stated: after a reorder(moved, target) run to its end with nothing
\* interleaved, list() is the renumbered sequence: every record is listed at
\* the index that is its position, and moved immediately before target,
\* whatever the statuses of the two.
C27_ListIsRenumberedSequence ==
    ReorderedTwo =>
        \A list \in ListResults(items) :
            /\ ListedAtPositions(items, list)
            /\ Place(list, calls[1].draggedId) + 1 = Place(list, calls[1].targetId)

\* C27: after such a reorder of two records with the same status, list() is
\* the renumbered sequence, every record listed at the index that is its
\* position and moved immediately before target; when the statuses differ,
\* list() still groups by status rank, so the moved record is listed with the
\* records of its own status, behind target when its rank is the higher one
\* and before it when lower.
C27_ListIsRenumberedWithinStatus ==
    ReorderedTwo =>
        LET moved == items[calls[1].draggedId]
            target == items[calls[1].targetId]
        IN
        \A list \in ListResults(items) :
            /\ moved.status = target.status =>
                  /\ ListedAtPositions(items, list)
                  /\ Place(list, calls[1].draggedId) + 1 = Place(list, calls[1].targetId)
            /\ statusRank(moved.status) > statusRank(target.status) =>
                  Place(list, calls[1].targetId) < Place(list, calls[1].draggedId)
            /\ statusRank(moved.status) < statusRank(target.status) =>
                  Place(list, calls[1].draggedId) < Place(list, calls[1].targetId)
            /\ \A j, k \in 1..Len(list) :
                  j < k => statusRank(items[list[j]].status)
                              <= statusRank(items[list[k]].status)

\* Three records of more than one status, moved and target of the same one:
\* the list order has changed and every record is listed at its position.
C27_Witness ==
    /\ ReorderedTwo
    /\ Cardinality(DOMAIN items) = 3
    /\ items[calls[1].draggedId].status = items[calls[1].targetId].status
    /\ \E id \in DOMAIN items : items[id].status # items[calls[1].targetId].status
    /\ ListResults(items) # ListResults(base)
    /\ \A list \in ListResults(items) : ListedAtPositions(items, list)

\* C28 as stated: reorder(id, id) on a present id leaves the list() order of
\* all records as it was and only renumbers the positions to the records'
\* 0-based indices in it (stated for tables whose list() order is determined,
\* no two records agreeing on the whole ordering key).
C28_SelfReorderKeepsOrder ==
    (/\ calls[1].pc = "done"
     /\ calls[1].draggedId = calls[1].targetId
     /\ Cardinality(ListResults(base)) = 1) =>
        /\ ListResults(items) = ListResults(base)
        /\ \A list \in ListResults(base) : ListedAtPositions(items, list)

(* ------------ claims on partial reorders and their counting ------------ *)

\* C29 as stated: a reorder that ends with a failed position write, or that
\* the process is stopped in, leaves every record's position as it was before
\* the reorder started.
C29_ReorderAllOrNothing ==
    calls[1].pc \in {"failed", "stopped"} =>
        \A id \in DOMAIN items : items[id].order_index = base[id].order_index

\* The sample of a reorder call that returned.
ReorderSample == [operation |-> "update", method |-> "reorderItems", success |-> "true"]

\* C30 as stated: one reorder call through the instrumented store that ran
\* to its end has added exactly one to the store counter summed over all label
\* sets, the sample update / reorderItems; the read and the position writes
\* inside it have added nothing. (The counter held at most samples of earlier
\* creates when the call started.)
C30_ReorderCountedOnce ==
    calls[1].pc = "done" =>
        /\ CopiesIn(ReorderSample, registry.db) = 1
        /\ Total(registry.db) - CopiesIn(CreateSample, registry.db) = 1

====
